---- MODULE Spec2Model ----
(***************************************************************************)
(* gowebp: a worker pool that converts the images found by a directory     *)
(* walk to webp.  The model follows src/main.go (the second, current       *)
(* program text, lines 230-544): the pool (newPool, start, wait, stop,     *)
(* worker), the per-job pipeline (execute), the job's result channel       *)
(* (newJob, waitForResult) and main's walk.                                *)
(*                                                                         *)
(* Paths are sequences of one-character strings, so that filepath.Ext,     *)
(* Base, Dir, Clean and Join and the image pattern are computed, not       *)
(* assumed.                                                                *)
(***************************************************************************)
EXTENDS Integers, Sequences, FiniteSets, TLC

\* ------------------------------------------------------------------ bounds

\* number of worker goroutines (flag -w)
NumWorkers == 2
\* largest number of image files in the walked directory (jobs of one run)
MaxFiles == 2

\* ------------------------------------------------------------ path algebra

Max(S) == CHOOSE x \in S : \A y \in S : y <= x

\* position of the last occurrence of character c in s, 0 when there is none
LastIndex(s, c) == Max({0} \cup {i \in 1..Len(s) : s[i] = c})

\* filepath.Ext: the suffix beginning at the final dot of the final element
Ext(path) ==
    LET d == LastIndex(path, ".")
        s == LastIndex(path, "/")
    IN  IF d > s THEN SubSeq(path, d, Len(path)) ELSE <<>>

RECURSIVE StripTrailingSlashes(_)
StripTrailingSlashes(p) ==
    IF p # <<>> /\ p[Len(p)] = "/"
    THEN StripTrailingSlashes(SubSeq(p, 1, Len(p) - 1))
    ELSE p

\* filepath.Base: the last element of the path
Base(path) ==
    IF path = <<>> THEN <<".">>
    ELSE LET q == StripTrailingSlashes(path)
         IN  IF q = <<>> THEN <<"/">>
             ELSE SubSeq(q, LastIndex(q, "/") + 1, Len(q))

IsAbs(path) == path # <<>> /\ path[1] = "/"

\* position of the first slash of a path that has one
FirstSlash(p) == CHOOSE i \in 1..Len(p) : p[i] = "/" /\ \A j \in 1..(i - 1) : p[j] # "/"

\* the elements of a path, split at the slashes.  (Here and below a value
\* that is used more than once is bound by a set constructor, which computes
\* it once.)
RECURSIVE Split(_)
Split(p) ==
    IF \A i \in 1..Len(p) : p[i] # "/" THEN <<p>>
    ELSE CHOOSE elems \in
            {<<SubSeq(p, 1, k - 1)>> \o Split(rest) :
                 k \in {FirstSlash(p)}, rest \in {SubSeq(p, FirstSlash(p) + 1, Len(p))}} : TRUE

\* the lexical processing of filepath.Clean over the elements, left to right
RECURSIVE CleanElems(_, _, _)
CleanElems(elems, stack, rooted) ==
    IF elems = <<>> THEN stack
    ELSE LET e == Head(elems)
             rest == Tail(elems)
         IN  IF e = <<>> \/ e = <<".">> THEN CleanElems(rest, stack, rooted)
             ELSE IF e = <<".", ".">>
             THEN IF stack # <<>> /\ stack[Len(stack)] # <<".", ".">>
                  THEN CleanElems(rest, SubSeq(stack, 1, Len(stack) - 1), rooted)
                  ELSE IF rooted THEN CleanElems(rest, stack, rooted)
                       ELSE CleanElems(rest, Append(stack, e), rooted)
             ELSE CleanElems(rest, Append(stack, e), rooted)

RECURSIVE JoinElems(_)
JoinElems(elems) ==
    IF elems = <<>> THEN <<>>
    ELSE IF Len(elems) = 1 THEN elems[1]
    ELSE elems[1] \o <<"/">> \o JoinElems(Tail(elems))

\* filepath.Clean: the shortest path name equivalent to path
Clean(path) ==
    IF path = <<>> THEN <<".">>
    ELSE CHOOSE c \in
            {IF rooted THEN <<"/">> \o body
             ELSE IF body = <<>> THEN <<".">> ELSE body :
                 rooted \in {IsAbs(path)},
                 body \in {JoinElems(stack) :
                              stack \in {CleanElems(elems, <<>>, IsAbs(path)) :
                                            elems \in {Split(path)}}}} : TRUE

\* filepath.Dir: all but the last element of the path
Dir(path) == Clean(SubSeq(path, 1, LastIndex(path, "/")))

\* filepath.Join of two elements: empty elements are ignored, the result is cleaned
Join(a, b) ==
    IF a = <<>> /\ b = <<>> THEN <<>>
    ELSE IF a = <<>> THEN Clean(b)
    ELSE IF b = <<>> THEN Clean(a)
    ELSE Clean(a \o <<"/">> \o b)

ToLower(c) ==
    CASE c = "J" -> "j" [] c = "P" -> "p" [] c = "E" -> "e" [] c = "G" -> "g"
      [] c = "N" -> "n" [] OTHER -> c

Lower(s) == [i \in 1..Len(s) |-> ToLower(s[i])]

HasSuffixFold(s, suf) ==
    Len(s) >= Len(suf) /\ Lower(SubSeq(s, Len(s) - Len(suf) + 1, Len(s))) = suf

\* imageRe = (?i)\.(jpe?g|png)$
imageRe(name) ==
    \E n \in {name} :
       \/ HasSuffixFold(n, <<".", "j", "p", "g">>)
       \/ HasSuffixFold(n, <<".", "j", "p", "e", "g">>)
       \/ HasSuffixFold(n, <<".", "p", "n", "g">>)

WebpExt == <<".", "w", "e", "b", "p">>

OutputFileKeepExt(input, pre, app) == Join(Dir(input), pre \o Base(input) \o app \o WebpExt)

\* execute's output path: the directory of the absolute input joined with
\* prepend + base name without its extension + append + ".webp"
OutputFile(input, pre, app) ==
    CHOOSE outputFile \in
       {Join(path, name) :
           path \in {Dir(input)},
           name \in {pre \o SubSeq(base, 1, Len(base) - Len(targetExt)) \o app \o WebpExt :
                        targetExt \in {Ext(input)}, base \in {Base(input)}}} : TRUE

\* ------------------------------------------------------------ environment

\* the walked directory /d and the files it may hold, in the lexical order
\* filepath.Walk visits them
aJpg == <<"/", "d", "/", "a", ".", "j", "p", "g">>
aPng == <<"/", "d", "/", "a", ".", "p", "n", "g">>
aWebp == <<"/", "d", "/", "a", ".", "w", "e", "b", "p">>
bJPG == <<"/", "d", "/", "b", ".", "J", "P", "G">>
cJpeg == <<"/", "d", "/", "c", ".", "j", "p", "e", "g">>
\* a relative input path, which only a direct client of the pool can submit
relJpg == <<"a", ".", "j", "p", "g">>

Entries == <<aJpg, aPng, aWebp, bJPG, cJpeg>>

\* the working directory os.Getwd returns when it succeeds
Cwd == <<"/", "d">>

AbsentFile == [kind |-> "absent", size |-> 0]
RegularFile(n) == [kind |-> "file", size |-> n]
\* a symbolic link whose target is missing: Lstat succeeds, Stat fails
DanglingLink == [kind |-> "dangling", size |-> 0]

\* what os.Stat finds at each input path; the program changes no input file
InputStat(e) ==
    CASE e = aJpg -> RegularFile(2)
      [] e = aPng -> RegularFile(2)
      [] e = bJPG -> RegularFile(1)
      [] e = cJpeg -> DanglingLink
      [] OTHER -> AbsentFile

\* the sizes the encoder may give its output
OutSizes == {1, 3}
\* the values of -min-size
MinSizes == {2}
\* the values of -w
WorkerCounts == {1, NumWorkers}
\* the values of -prepend and -append
Decors == {<< <<>>, <<>> >>, << <<"p">>, <<"s">> >>}

\* filepath.Abs; wdOk says whether os.Getwd succeeds when it is needed
Abs(path, wdOk) ==
    IF IsAbs(path) THEN [path |-> Clean(path), err |-> "nil"]
    ELSE IF wdOk THEN [path |-> Join(Cwd, path), err |-> "nil"]
    ELSE [path |-> <<>>, err |-> "getwd"]

AbsOf(e) == Abs(e, TRUE).path

\* the output paths of the candidate inputs, and the .webp file of the directory
OutputPaths ==
    {aWebp} \cup {OutputFile(Entries[k], d[1], d[2]) : k \in 1..Len(Entries), d \in Decors}

\* ------------------------------------------------------------------- state

Workers == 1..NumWorkers
JobIds == 1..MaxFiles

VARIABLES
    replace, dryRun, minFileSize, prependToName, appendToName,  \* the flags
    workers,     \* the flag -w: the number of workers newPool is given
    fs,          \* the file system at the output paths: path -> what is there
    listed,      \* the directory listing the walk read holds a.webp
    walked,      \* the position in Entries of the entry the walk visited last
    walkErr,     \* main's err: the walk failed
    mainPc,      \* where main is
    cnt,         \* main's cnt: jobs handed to a worker
    jobsClosed,  \* p.jobs is closed
    cancelled,   \* p.ctx is done
    wg,          \* p.wg's counter
    wpc,         \* where each worker is
    wjob,        \* the job a worker executes (0: none)
    r,           \* execute's r
    fSizeTarget, \* execute's fSizeTarget
    panicking,   \* the worker goroutine is unwinding a panic
    input,       \* j.input of each job
    res,         \* j.res of each job
    sent,        \* number of values sent on j.resCh
    closed,      \* j.resCh is closed
    rpc,         \* where each caller of j.waitForResult is
    rval,        \* the value a caller of j.waitForResult received
    proc,        \* the process: running, crashed (panic) or exited (main returned)
    stopPc,      \* a client's concurrent call of p.stop()
    run,         \* which run of the tool over the directory this is
    kept,        \* the output files the run before wrote and left: path -> file
    \* history, read by the properties only
    encCalls, wrote, removed, outBefore, endedBy, inFlightAtCancel

runs == <<run, kept>>
flags == <<replace, dryRun, minFileSize, prependToName, appendToName, workers>>
mainVars == <<listed, walked, walkErr, mainPc>>
poolVars == <<jobsClosed, cancelled, wg>>
workerVars == <<wpc, wjob, r, fSizeTarget, panicking>>
chanVars == <<sent, closed, rpc, rval, res>>
history == <<encCalls, wrote, removed, outBefore, endedBy>>
vars == <<runs, flags, fs, mainVars, cnt, poolVars, workerVars, input, chanVars, proc,
          stopPc, history, inFlightAtCancel>>

\* a nil *webpJobResult, and the zero value &webpJobResult{}
NilResult == [nil |-> TRUE, err |-> "nil", exists |-> FALSE, outputFile |-> <<>>]
ZeroResult == [nil |-> FALSE, err |-> "nil", exists |-> FALSE, outputFile |-> <<>>]

\* the callers of j.waitForResult: execute's goroutine, and a client of the pool
Callers == {"g", "c"}

\* p.start: go p.worker() for the first `workers` of the goroutines
StartedWorkers(n) == [w \in Workers |-> IF w <= n THEN "select" ELSE "unstarted"]

\* the output paths before the run: a.webp is there if the directory lists it
InitialFs(l) ==
    [p \in OutputPaths |-> IF p = aWebp /\ l THEN RegularFile(1) ELSE AbsentFile]

\* the state after init(), flag parsing and newPool.  The directory holds some
\* of the candidate files; which images it holds shows as the walk visits them
Init ==
    /\ run = 1
    /\ kept = <<>>
    /\ replace \in BOOLEAN
    /\ dryRun \in BOOLEAN
    /\ minFileSize \in MinSizes
    /\ \E d \in Decors : prependToName = d[1] /\ appendToName = d[2]
    /\ workers \in WorkerCounts
    /\ listed \in BOOLEAN
    /\ fs = InitialFs(listed)
    /\ walked = 0
    /\ walkErr = FALSE
    /\ mainPc = "walk"
    /\ cnt = 0
    /\ jobsClosed = FALSE
    /\ cancelled = FALSE
    /\ wg = workers
    /\ wpc = StartedWorkers(workers)
    /\ wjob = [w \in Workers |-> 0]
    /\ r = [w \in Workers |-> ZeroResult]
    /\ fSizeTarget = [w \in Workers |-> 0]
    /\ panicking = [w \in Workers |-> FALSE]
    /\ input = [i \in JobIds |-> <<>>]
    /\ res = [i \in JobIds |-> NilResult]
    /\ sent = [i \in JobIds |-> 0]
    /\ closed = [i \in JobIds |-> FALSE]
    /\ rpc = [i \in JobIds |-> [c \in Callers |-> "none"]]
    /\ rval = [i \in JobIds |-> [c \in Callers |-> NilResult]]
    /\ proc = "running"
    /\ stopPc = "idle"
    /\ encCalls = [i \in JobIds |-> 0]
    /\ wrote = [i \in JobIds |-> 0]
    /\ removed = [i \in JobIds |-> 0]
    /\ outBefore = [i \in JobIds |-> AbsentFile]
    /\ endedBy = [i \in JobIds |-> "none"]
    /\ inFlightAtCancel = {}

\* ------------------------------------------------------------ main's walk

Running == proc = "running"

\* the position of a.webp in the listing
WebpAt == CHOOSE k \in 1..Len(Entries) : Entries[k] = aWebp

\* the entries the walk can visit next: any later entry of the listing, none
\* of the listing being passed over
CanVisit(k) ==
    /\ k \in (walked + 1)..Len(Entries)
    /\ k = WebpAt => listed
    /\ (walked < WebpAt /\ WebpAt < k) => ~listed

\* the walk visits the next entry; an image becomes a job (newJob), which main
\* then offers on p.jobs
WalkVisit ==
    /\ Running /\ mainPc = "walk"
    /\ \E k \in 1..Len(Entries) :
          /\ CanVisit(k)
          /\ walked' = k
          /\ IF imageRe(Base(Entries[k]))
             THEN /\ cnt < MaxFiles
                  /\ input' = [input EXCEPT ![cnt + 1] = Entries[k]]
                  /\ mainPc' = "submit"
             ELSE UNCHANGED <<input, mainPc>>
    /\ UNCHANGED <<runs, flags, fs, listed, walkErr, cnt, poolVars, workerVars, chanVars,
                   proc, stopPc, history, inFlightAtCancel>>

\* a client of the pool makes its first job of a relative path and offers it
\* on p.jobs, before it walks the directory
ClientSubmitRelative ==
    /\ Running /\ mainPc = "walk" /\ walked = 0
    /\ cnt = 0
    /\ input' = [input EXCEPT ![cnt + 1] = relJpg]
    /\ mainPc' = "submit"
    /\ UNCHANGED <<runs, flags, fs, listed, walked, walkErr, cnt, poolVars, workerVars,
                   chanVars, proc, stopPc, history, inFlightAtCancel>>

\* the walk hands the callback an error: the callback returns it, the walk
\* ends and main logs the error.  Then p.wait: close(p.jobs)
WalkError ==
    /\ Running /\ mainPc = "walk"
    /\ walkErr' = TRUE
    /\ jobsClosed' = TRUE
    /\ mainPc' = "waitwg"
    /\ UNCHANGED <<runs, flags, fs, listed, walked, cnt, cancelled, wg, workerVars, input,
                   chanVars, proc, stopPc, history, inFlightAtCancel>>

\* the walk has visited everything the directory holds.  Then p.wait:
\* close(p.jobs)
WalkDone ==
    /\ Running /\ mainPc = "walk"
    /\ listed => walked >= WebpAt
    /\ jobsClosed' = TRUE
    /\ mainPc' = "waitwg"
    /\ UNCHANGED <<runs, flags, fs, listed, walked, walkErr, cnt, cancelled, wg,
                   workerVars, input, chanVars, proc, stopPc, history,
                   inFlightAtCancel>>

\* --------------------------------------------------------- wait and stop

WaitGroupDoneEarly(n) == n <= 1

\* sync.WaitGroup.Wait returns when the counter is zero
WaitGroupDone(n) == n = 0

\* the jobs whose pipeline a worker is executing
InFlight == {wjob[w] : w \in {v \in Workers : wjob[v] # 0}}

\* p.wait: p.wg.Wait() returns; main returns and its deferred p.stop() begins
WaitReturn ==
    /\ Running /\ mainPc = "waitwg"
    /\ WaitGroupDone(wg)
    /\ mainPc' = "stop"
    /\ UNCHANGED <<runs, flags, fs, listed, walked, walkErr, cnt, poolVars, workerVars, input,
                   chanVars, proc, stopPc, history, inFlightAtCancel>>

\* p.stop (deferred by main): p.done()
StopCancel ==
    /\ Running /\ mainPc = "stop"
    /\ cancelled' = TRUE
    /\ inFlightAtCancel' = IF cancelled THEN inFlightAtCancel ELSE InFlight
    /\ mainPc' = "stopwg"
    /\ UNCHANGED <<runs, flags, fs, listed, walked, walkErr, cnt, jobsClosed, wg, workerVars, input,
                   chanVars, proc, stopPc, history>>

\* p.stop (deferred by main): p.wg.Wait() returns; main has returned and the
\* process exits
StopReturn ==
    /\ Running /\ mainPc = "stopwg"
    /\ WaitGroupDone(wg)
    /\ mainPc' = "exit"
    /\ proc' = "exited"
    /\ UNCHANGED <<runs, flags, fs, listed, walked, walkErr, cnt, poolVars, workerVars, input,
                   chanVars, stopPc, history, inFlightAtCancel>>

\* a client of the pool calls p.stop() while the pool runs: p.done()
ClientStopCancel ==
    /\ Running /\ stopPc = "idle"
    /\ cancelled' = TRUE
    /\ inFlightAtCancel' = IF cancelled THEN inFlightAtCancel ELSE InFlight
    /\ stopPc' = "wg"
    /\ UNCHANGED <<runs, flags, fs, mainVars, cnt, jobsClosed, wg, workerVars, input,
                   chanVars, proc, history>>

\* the client's p.stop(): p.wg.Wait() returns
ClientStopReturn ==
    /\ Running /\ stopPc = "wg"
    /\ WaitGroupDone(wg)
    /\ stopPc' = "returned"
    /\ UNCHANGED <<runs, flags, fs, mainVars, cnt, poolVars, workerVars, input, chanVars,
                   proc, history, inFlightAtCancel>>

\* the output files a run wrote and left behind
KeptPaths ==
    {p \in OutputPaths :
        /\ fs[p].kind = "file"
        /\ \E i \in 1..cnt : wrote[i] > 0
               /\ OutputFile(input[i], prependToName, appendToName) = p}

\* the tool is run a second time over the same directory, with the same flags
\* but -r off, once the first process is gone (main returned, or a panic killed
\* it).  The process starts afresh: init(), newPool, p.start; the files are
\* what the first run left
Rerun ==
    /\ run = 1 /\ proc \in {"exited", "crashed"}
    /\ run' = 2
    /\ kept' = [p \in KeptPaths |-> fs[p]]
    /\ replace' = FALSE
    /\ listed' = (fs[aWebp].kind = "file")
    /\ walked' = 0
    /\ walkErr' = FALSE
    /\ mainPc' = "walk"
    /\ cnt' = 0
    /\ jobsClosed' = FALSE
    /\ cancelled' = FALSE
    /\ wg' = workers
    /\ wpc' = StartedWorkers(workers)
    /\ wjob' = [w \in Workers |-> 0]
    /\ r' = [w \in Workers |-> ZeroResult]
    /\ fSizeTarget' = [w \in Workers |-> 0]
    /\ panicking' = [w \in Workers |-> FALSE]
    /\ input' = [i \in JobIds |-> <<>>]
    /\ res' = [i \in JobIds |-> NilResult]
    /\ sent' = [i \in JobIds |-> 0]
    /\ closed' = [i \in JobIds |-> FALSE]
    /\ rpc' = [i \in JobIds |-> [c \in Callers |-> "none"]]
    /\ rval' = [i \in JobIds |-> [c \in Callers |-> NilResult]]
    /\ proc' = "running"
    /\ stopPc' = "idle"
    /\ encCalls' = [i \in JobIds |-> 0]
    /\ wrote' = [i \in JobIds |-> 0]
    /\ removed' = [i \in JobIds |-> 0]
    /\ outBefore' = [i \in JobIds |-> AbsentFile]
    /\ endedBy' = [i \in JobIds |-> "none"]
    /\ inFlightAtCancel' = {}
    /\ UNCHANGED <<dryRun, minFileSize, prependToName, appendToName, workers, fs>>

\* ------------------------------------------------------------ the worker

\* start() runs go p.worker() n times: the workers have no identity and take
\* no argument, and an idle worker holds no state of its own.  Of the workers
\* blocked in select, the one that the runtime wakes is counted as the first
FirstIdle(w) == \A v \in Workers : v < w => wpc[v] # "select"

ReceiveWhileEncoding(pc) == pc \in {"select", "encode"}

\* the worker receives from p.jobs only in its select, between two jobs
ReceivePoint(pc) == pc = "select"

\* select: a job is received from p.jobs.  The channel is unbuffered, so the
\* receive is the hand-off from main's send; select may take this case also
\* when p.ctx is done
WorkerReceive(w) ==
    /\ Running /\ ReceivePoint(wpc[w]) /\ FirstIdle(w)
    /\ mainPc = "submit" /\ ~jobsClosed
    /\ wjob' = [wjob EXCEPT ![w] = cnt + 1]
    /\ wpc' = [wpc EXCEPT ![w] = "begin"]
    /\ cnt' = cnt + 1
    /\ mainPc' = "walk"
    /\ UNCHANGED <<runs, flags, fs, listed, walked, walkErr, poolVars, r, fSizeTarget, panicking,
                   input, chanVars, proc, stopPc, history, inFlightAtCancel>>

\* select: p.jobs is closed (ok is false): return, and the worker's deferred
\* p.wg.Done()
WorkerQueueClosed(w) ==
    /\ Running /\ wpc[w] = "select" /\ FirstIdle(w)
    /\ jobsClosed
    /\ wg' = wg - 1
    /\ wpc' = [wpc EXCEPT ![w] = "exited"]
    /\ UNCHANGED <<runs, flags, fs, mainVars, cnt, jobsClosed, cancelled, wjob, r,
                   fSizeTarget, panicking, input, chanVars, proc, stopPc, history,
                   inFlightAtCancel>>

AnyPoint(pc) == pc \notin {"unstarted", "exited", "unwind", "fatal"}

\* the worker looks at p.ctx.Done() only in its select, between two jobs
CancelPoint(pc) == pc = "select"

\* select: p.ctx.Done() is closed: return, and the worker's deferred
\* p.wg.Done()
WorkerCancelled(w) ==
    /\ Running /\ CancelPoint(wpc[w]) /\ (wpc[w] = "select" => FirstIdle(w))
    /\ cancelled
    /\ wg' = wg - 1
    /\ wpc' = [wpc EXCEPT ![w] = "exited"]
    /\ UNCHANGED <<runs, flags, fs, mainVars, cnt, jobsClosed, cancelled, wjob, r,
                   fSizeTarget, panicking, input, chanVars, proc, stopPc, history,
                   inFlightAtCancel>>

\* a panic unwinds out of execute: the worker's deferred p.wg.Done()
WorkerPanicDone(w) ==
    /\ Running /\ wpc[w] = "unwind"
    /\ wg' = wg - 1
    /\ wpc' = [wpc EXCEPT ![w] = "fatal"]
    /\ UNCHANGED <<runs, flags, fs, mainVars, cnt, jobsClosed, cancelled, wjob, r,
                   fSizeTarget, panicking, input, chanVars, proc, stopPc, history,
                   inFlightAtCancel>>

\* an unrecovered panic reaches the top of the goroutine: the process dies
Crash(w) ==
    /\ Running /\ wpc[w] = "fatal"
    /\ proc' = "crashed"
    /\ UNCHANGED <<runs, flags, fs, mainVars, cnt, poolVars, workerVars, input, chanVars,
                   stopPc, history, inFlightAtCancel>>

\* ------------------------------------------------------------ execute

\* os.Stat returns an error: nothing is there, or a link leads nowhere
StatFails(st) == st.kind # "file"

ExistsGateOff(rep, st) == FALSE

ExistsGateInverted(rep, st) == rep /\ ~StatFails(st)

\* the existence gate: !replace and os.Stat(r.outputFile) succeeds
ExistsGate(rep, st) == ~rep /\ ~StatFails(st)

BelowMinimumInverted(size, min) == min < size

\* the minimum-size gate: fSizeTarget.Bytes() < minFileSize.Bytes()
BelowMinimum(size, min) == size < min

DryRunGateOff(dry) == FALSE

\* the dry-run gate: if dryRun
DryRunGate(dry) == dry

\* the size anomaly: fSizeOutput.Bytes() > fSizeTarget.Bytes()
Oversized(out, target) == out > target

ReturnNoSend == "close"

\* every way out of execute runs the deferred function, which begins by
\* sending r on j.resCh
Return == "send"

AfterSendRemove == "remove"

\* the deferred function after its send: close(j.resCh)
AfterSend == "close"

\* the outcomes of the encoder: an error, or an output file of some size
EncodeOutcomes == {[ok |-> FALSE, size |-> 0]} \cup {[ok |-> TRUE, size |-> n] : n \in OutSizes}

GatesDryRunFirst(outStat, inStat) ==
    IF DryRunGate(dryRun) THEN [pc |-> Return, by |-> "dryrun"]
    ELSE IF ExistsGate(replace, outStat) THEN [pc |-> Return, by |-> "exists"]
    ELSE IF StatFails(inStat) THEN [pc |-> Return, by |-> "panic"]
    ELSE IF BelowMinimum(inStat.size, minFileSize) THEN [pc |-> Return, by |-> "minsize"]
    ELSE [pc |-> "encode", by |-> "none"]

\* where execute stands after the gates, and how it got there: the existence
\* gate, mustGetFileSize(j.input) (which panics when os.Stat fails), the
\* minimum-size gate, the dry-run gate
Gates(outStat, inStat) ==
    IF ExistsGate(replace, outStat) THEN [pc |-> Return, by |-> "exists"]
    ELSE IF StatFails(inStat) THEN [pc |-> Return, by |-> "panic"]
    ELSE IF BelowMinimum(inStat.size, minFileSize) THEN [pc |-> Return, by |-> "minsize"]
    ELSE IF DryRunGate(dryRun) THEN [pc |-> Return, by |-> "dryrun"]
    ELSE [pc |-> "encode", by |-> "none"]

\* execute up to the encoder: go j.waitForResult(); r := &webpJobResult{};
\* filepath.Abs; the output path; the gates.  The one thing read here that
\* another goroutine may change is the output file, read once by os.Stat
ExecBegin(w) ==
    /\ Running /\ wpc[w] = "begin"
    /\ \E i \in {wjob[w]}, wdOk \in BOOLEAN :
          /\ IsAbs(input[i]) => wdOk
          /\ \E a \in {Abs(input[i], wdOk)} :
                /\ rpc' = [rpc EXCEPT ![i]["g"] = "recv"]
                /\ input' = [input EXCEPT ![i] = a.path]
                /\ IF a.err # "nil"
                   THEN /\ r' = [r EXCEPT ![w] = [ZeroResult EXCEPT !.err = a.err]]
                        /\ wpc' = [wpc EXCEPT ![w] = Return]
                        /\ endedBy' = [endedBy EXCEPT ![i] = "patherr"]
                        /\ UNCHANGED <<outBefore, fSizeTarget, panicking>>
                   ELSE \E out \in {OutputFile(a.path, prependToName, appendToName)} :
                        \E g \in {Gates(fs[out], InputStat(a.path))} :
                        /\ outBefore' = [outBefore EXCEPT ![i] = fs[out]]
                        /\ r' = [r EXCEPT ![w] = [ZeroResult EXCEPT
                                     !.outputFile = out, !.exists = (g.by = "exists")]]
                        /\ wpc' = [wpc EXCEPT ![w] = g.pc]
                        /\ endedBy' = [endedBy EXCEPT ![i] = g.by]
                        /\ panicking' = [panicking EXCEPT ![w] = (g.by = "panic")]
                        /\ fSizeTarget' = [fSizeTarget EXCEPT ![w] =
                               IF g.by \in {"exists", "panic"} THEN 0
                               ELSE InputStat(a.path).size]
    /\ UNCHANGED <<runs, flags, fs, mainVars, cnt, poolVars, wjob, sent, closed, rval, res,
                   proc, stopPc, encCalls, wrote, removed, inFlightAtCancel>>

\* webpbin.NewCWebP()...Run(): the encoder fails, or writes the output file
ExecEncode(w) ==
    /\ Running /\ wpc[w] = "encode"
    /\ LET i == wjob[w]
           out == r[w].outputFile
       IN  \E o \in EncodeOutcomes :
              /\ encCalls' = [encCalls EXCEPT ![i] = @ + 1]
              /\ IF o.ok
                 THEN /\ fs' = [fs EXCEPT ![out] = RegularFile(o.size)]
                      /\ wrote' = [wrote EXCEPT ![i] = @ + 1]
                      /\ wpc' = [wpc EXCEPT ![w] = "statout"]
                      /\ UNCHANGED <<r, endedBy>>
                 ELSE /\ r' = [r EXCEPT ![w].err = "encode"]
                      /\ wpc' = [wpc EXCEPT ![w] = Return]
                      /\ endedBy' = [endedBy EXCEPT ![i] = "encerr"]
                      /\ UNCHANGED <<fs, wrote>>
    /\ UNCHANGED <<runs, flags, mainVars, cnt, poolVars, wjob, fSizeTarget, panicking,
                   input, chanVars, proc, stopPc, removed, outBefore, inFlightAtCancel>>

\* mustGetFileSize(r.outputFile), which panics when os.Stat fails; the
\* comparison of the two sizes
ExecStatOutput(w) ==
    /\ Running /\ wpc[w] = "statout"
    /\ LET i == wjob[w]
           st == fs[r[w].outputFile]
       IN  IF StatFails(st)
           THEN /\ panicking' = [panicking EXCEPT ![w] = TRUE]
                /\ wpc' = [wpc EXCEPT ![w] = Return]
                /\ endedBy' = [endedBy EXCEPT ![i] = "panic"]
           ELSE /\ UNCHANGED panicking
                /\ IF Oversized(st.size, fSizeTarget[w])
                   THEN /\ wpc' = [wpc EXCEPT ![w] = "remove"]
                        /\ UNCHANGED endedBy
                   ELSE /\ wpc' = [wpc EXCEPT ![w] = Return]
                        /\ endedBy' = [endedBy EXCEPT ![i] = "ok"]
    /\ UNCHANGED <<runs, flags, fs, mainVars, cnt, poolVars, wjob, r, fSizeTarget, input,
                   chanVars, proc, stopPc, encCalls, wrote, removed, outBefore,
                   inFlightAtCancel>>

\* r.err = os.Remove(r.outputFile): it fails when the file is gone, and may
\* fail when it is there
ExecRemove(w) ==
    /\ Running /\ wpc[w] = "remove"
    /\ LET i == wjob[w]
           out == r[w].outputFile
       IN  \E fails \in BOOLEAN :
              /\ fs[out].kind = "absent" => fails
              /\ IF fails
                 THEN /\ r' = [r EXCEPT ![w].err = "remove"]
                      /\ endedBy' = [endedBy EXCEPT ![i] = "removeerr"]
                      /\ UNCHANGED <<fs, removed>>
                 ELSE /\ fs' = [fs EXCEPT ![out] = AbsentFile]
                      /\ removed' = [removed EXCEPT ![i] = @ + 1]
                      /\ endedBy' = [endedBy EXCEPT ![i] = "anomaly"]
                      /\ UNCHANGED r
    /\ wpc' = [wpc EXCEPT ![w] = Return]
    /\ UNCHANGED <<runs, flags, mainVars, cnt, poolVars, wjob, fSizeTarget, panicking,
                   input, chanVars, proc, stopPc, encCalls, wrote, outBefore,
                   inFlightAtCancel>>

\* j.res after a caller of waitForResult stores the value v it received.  The
\* callers' stores to j.res are not ordered with one another (a data race):
\* once another caller has stored, either store may be the one that lasts
Stored(i, c, v) ==
    {v} \cup {res[i] : d \in {e \in Callers \ {c} : rpc[i][e] = "returned"}}

\* the deferred j.resCh <- r: the channel is unbuffered, so the send is the
\* hand-off to a caller of waitForResult that is receiving, which stores the
\* value in j.res and returns it
ExecSend(w, c) ==
    /\ Running /\ wpc[w] = "send"
    /\ LET i == wjob[w] IN
          /\ rpc[i][c] = "recv" /\ ~closed[i]
          /\ sent' = [sent EXCEPT ![i] = @ + 1]
          /\ rval' = [rval EXCEPT ![i][c] = r[w]]
          /\ \E v \in Stored(i, c, r[w]) : res' = [res EXCEPT ![i] = v]
          /\ rpc' = [rpc EXCEPT ![i][c] = "returned"]
    /\ wpc' = [wpc EXCEPT ![w] = AfterSend]
    /\ mainPc' = IF c = "c" THEN "walk" ELSE mainPc
    /\ UNCHANGED <<runs, flags, fs, listed, walked, walkErr, cnt, poolVars, wjob, r,
                   fSizeTarget, panicking, input, closed, proc, stopPc, history,
                   inFlightAtCancel>>

\* the deferred close(j.resCh); execute returns to the worker's loop, or the
\* panic goes on to the worker's deferred function
ExecClose(w) ==
    /\ Running /\ wpc[w] = "close"
    /\ closed' = [closed EXCEPT ![wjob[w]] = TRUE]
    /\ wpc' = [wpc EXCEPT ![w] = IF panicking[w] THEN "unwind" ELSE "select"]
    /\ wjob' = [wjob EXCEPT ![w] = 0]
    /\ r' = [r EXCEPT ![w] = ZeroResult]
    /\ fSizeTarget' = [fSizeTarget EXCEPT ![w] = 0]
    /\ UNCHANGED <<runs, flags, fs, mainVars, cnt, poolVars, panicking, input, sent, rval,
                   rpc, res, proc, stopPc, history, inFlightAtCancel>>

\* -------------------------------------------------------- waitForResult

\* the submitter calls j.waitForResult() on a job it has handed to a worker
ClientAwait(i) ==
    /\ Running /\ mainPc = "walk"
    /\ i \in 1..cnt
    /\ rpc[i]["c"] = "none"
    /\ rpc' = [rpc EXCEPT ![i]["c"] = "recv"]
    /\ mainPc' = "await"
    /\ UNCHANGED <<runs, flags, fs, listed, walked, walkErr, cnt, poolVars, workerVars,
                   input, sent, closed, rval, res, proc, stopPc, history,
                   inFlightAtCancel>>

\* <-j.resCh on the closed channel yields the zero value, nil, which the
\* caller stores in j.res and returns
ReceiveClosed(i, c) ==
    /\ Running /\ rpc[i][c] = "recv"
    /\ closed[i]
    /\ rval' = [rval EXCEPT ![i][c] = NilResult]
    /\ \E v \in Stored(i, c, NilResult) : res' = [res EXCEPT ![i] = v]
    /\ rpc' = [rpc EXCEPT ![i][c] = "returned"]
    /\ mainPc' = IF c = "c" THEN "walk" ELSE mainPc
    /\ UNCHANGED <<runs, flags, fs, listed, walked, walkErr, cnt, poolVars, workerVars,
                   input, sent, closed, proc, stopPc, history, inFlightAtCancel>>

\* -------------------------------------------------------- specifications

Worker(w) ==
    \/ WorkerReceive(w) \/ WorkerQueueClosed(w)
    \/ WorkerPanicDone(w) \/ Crash(w)
    \/ ExecBegin(w) \/ ExecEncode(w) \/ ExecStatOutput(w)
    \/ ExecRemove(w) \/ ExecSend(w, "g") \/ ExecClose(w)

Main ==
    \/ WalkVisit \/ WalkError \/ WalkDone
    \/ WaitReturn \/ StopCancel \/ StopReturn

\* the program: main, the workers and execute's waitForResult goroutines
Next ==
    \/ Main
    \/ \E w \in Workers : Worker(w)

Spec == Init /\ [][Next]_vars

\* the pool under a client that submits jobs as main does from a walk that
\* does not fail, a relative path too, and that may call p.stop() at any moment
PoolNext ==
    \/ WalkVisit \/ WalkDone \/ WaitReturn \/ StopCancel \/ StopReturn
    \/ \E w \in Workers : Worker(w)
    \/ ClientSubmitRelative
    \/ \E w \in Workers : WorkerCancelled(w)
    \/ ClientStopCancel \/ ClientStopReturn

\* the pool's client leaves -replace, -prepend and -append at the defaults of
\* init(), starts every worker and starts on a directory without .webp files
PoolInit ==
    /\ Init
    /\ ~replace /\ prependToName = <<>> /\ appendToName = <<>>
    /\ workers = NumWorkers
    /\ ~listed

PoolSpec == PoolInit /\ [][PoolNext]_vars

\* the program under the Go scheduler: a goroutine that can take a step does
\* take one; main is a goroutine, and so is each worker (with the pipeline it
\* runs and the waitForResult goroutine it started)
FairSpec ==
    /\ Spec
    /\ WF_vars(Main)
    /\ \A w \in Workers : WF_vars(Worker(w))

\* the tool run over a directory, and then run over it again
RerunNext == Next \/ Rerun

RerunSpec == Init /\ [][RerunNext]_vars

\* the pool under a submitter that may call j.waitForResult() on its jobs
AwaitNext ==
    \/ Next
    \/ \E w \in Workers : ExecSend(w, "c")
    \/ \E i \in JobIds, c \in Callers : ReceiveClosed(i, c)
    \/ \E i \in JobIds : ClientAwait(i)

AwaitSpec == Init /\ [][AwaitNext]_vars

\* -------------------------------------------------------------- properties

\* the result sent on job i's channel (nil when none was)
Delivered(i) ==
    IF \E c \in Callers : ~rval[i][c].nil
    THEN rval[i][CHOOSE c \in Callers : ~rval[i][c].nil]
    ELSE NilResult

\* the worker executing job i, if any
Holds(w, i) == wjob[w] = i /\ wpc[w] \notin {"select", "exited"}

\* the worker is not in its loop: it left it, or was never started
Exited(w) == wpc[w] \in {"exited", "fatal", "unstarted"}

\* C1: every job a worker has dequeued gets, whatever step ends its pipeline,
\* exactly one result sent on its channel; the close is the sender's next step
\* after the send; nothing is ever sent twice, and nothing is sent or closed on
\* the channel of a job no worker has dequeued.
C1_ExactlyOneResult ==
    \A i \in JobIds :
       /\ sent[i] <= 1
       /\ closed[i] => sent[i] = 1
       /\ (sent[i] = 1 /\ ~closed[i]) => \E w \in Workers : Holds(w, i) /\ wpc[w] = "close"
       /\ (i <= cnt /\ ~\E w \in Workers : Holds(w, i)) => (sent[i] = 1 /\ closed[i])
       /\ (i <= cnt /\ sent[i] = 1) => endedBy[i] # "none"
       /\ i > cnt => (sent[i] = 0 /\ ~closed[i])

\* two jobs are finished, one by a path error and one by the size anomaly
C1_Witness ==
    \E i, j \in JobIds :
       /\ closed[i] /\ sent[i] = 1 /\ endedBy[i] = "patherr" /\ Delivered(i).err = "getwd"
       /\ closed[j] /\ sent[j] = 1 /\ endedBy[j] = "anomaly"

WaitReturned == mainPc \in {"stop", "stopwg", "exit"}

\* C2: wait() has closed the queue, and returns only when every worker has left
\* its loop; if no cancellation has fired by then, every job handed to a worker
\* has its result delivered and its channel closed, and no pipeline is running.
C2_WaitDrains ==
    WaitReturned =>
       /\ jobsClosed
       /\ \A w \in Workers : Exited(w)
       /\ InFlight = {}
       /\ ~cancelled => \A i \in 1..cnt : sent[i] = 1 /\ closed[i]

\* wait() has just returned, uncancelled, after two jobs of which one encoded
C2_Witness ==
    /\ mainPc = "stop" /\ ~cancelled /\ cnt = 2
    /\ \E i \in 1..cnt : endedBy[i] = "ok" /\ closed[i]

StopReturned == stopPc = "returned" \/ mainPc = "exit"

\* C3: stop() returns only when every worker has left its loop, and then every
\* job whose pipeline was running when the cancellation fired has run to its
\* end and has exactly one result delivered; no job ever has two.
C3_StopInFlight ==
    /\ \A i \in JobIds : sent[i] <= 1
    /\ StopReturned =>
          /\ \A w \in Workers : Exited(w)
          /\ \A i \in inFlightAtCancel :
                endedBy[i] # "none" /\ sent[i] = 1 /\ closed[i]

\* the client's stop() has returned, and two pipelines were running when it
\* cancelled
C3_Witness ==
    /\ stopPc = "returned"
    /\ Cardinality(inFlightAtCancel) = 2
    /\ \E i \in inFlightAtCancel : endedBy[i] = "ok"

\* execute has begun job i: its path is normalized and its gate evaluated
Begun(i) == i <= cnt /\ rpc[i]["g"] # "none"

\* the output path of job i, derived from its normalized input path
Out(i) == OutputFile(input[i], prependToName, appendToName)

\* C4: when the submitter's single call of waitForResult on a job returns, it
\* returns the result the worker delivered, never nil, and j.res is that result.
C4_AwaitReturnsResult ==
    \A i \in JobIds :
       rpc[i]["c"] = "returned" =>
          /\ ~rval[i]["c"].nil
          /\ rval[i]["c"] = Delivered(i)
          /\ res[i] = rval[i]["c"]

\* C5: a failure while processing a job never terminates the process, and shows
\* as the error of that job's delivered result.
C5_ErrorsContained ==
    /\ proc # "crashed"
    /\ \A w \in Workers : ~panicking[w]
    /\ \A i \in JobIds :
          (sent[i] = 1 /\ endedBy[i] \in {"patherr", "encerr", "removeerr", "panic"})
              => Delivered(i).err # "nil"

\* C6: two workers executing jobs of different input paths never work on the
\* same output path.
C6_UniqueOutputs ==
    \A w, v \in Workers :
       (/\ w # v /\ wjob[w] # 0 /\ wjob[v] # 0
        /\ Begun(wjob[w]) /\ Begun(wjob[v])
        /\ input[wjob[w]] # input[wjob[v]])
           => r[w].outputFile # r[v].outputFile

C8_DryRunOutputAbsent ==
    dryRun =>
       \A i \in JobIds :
          Begun(i) =>
             /\ encCalls[i] = 0 /\ wrote[i] = 0 /\ removed[i] = 0
             /\ outBefore[i].kind = "absent" /\ fs[Out(i)].kind = "absent"
             /\ sent[i] = 1 => Delivered(i).outputFile = Out(i)

\* C8 amended: a dry-run job invokes no encoder and creates or deletes no file,
\* so the file system is as it was before the run and the output file is as the
\* job found it (absent if it was absent), and its result's outputPath is the
\* derived output path.
C8_DryRunNoMutation ==
    dryRun =>
       /\ fs = InitialFs(listed)
       /\ \A i \in JobIds :
             Begun(i) =>
                /\ encCalls[i] = 0 /\ wrote[i] = 0 /\ removed[i] = 0
                /\ fs[Out(i)] = outBefore[i]
                /\ sent[i] = 1 => Delivered(i).outputFile = Out(i)

\* a dry-run job whose output file was there before passes the dry-run gate
\* and delivers its result
C8_Witness ==
    \E i \in JobIds :
       /\ dryRun /\ endedBy[i] = "dryrun" /\ sent[i] = 1
       /\ outBefore[i].kind = "file" /\ fs[Out(i)].kind = "file"

\* C9: a job whose input file is smaller than the minimum never invokes the
\* encoder and never writes an output file, and its result carries no error.
C9_BelowMinimumSkipped ==
    \A i \in JobIds :
       (/\ Begun(i) /\ InputStat(input[i]).kind = "file"
        /\ InputStat(input[i]).size < minFileSize) =>
          /\ encCalls[i] = 0 /\ wrote[i] = 0
          /\ sent[i] = 1 => Delivered(i).err = "nil"

\* a job is stopped by the minimum-size gate and delivers its result
C9_Witness ==
    \E i \in JobIds :
       /\ endedBy[i] = "minsize" /\ sent[i] = 1 /\ input[i] = bJPG
       /\ InputStat(input[i]).size < minFileSize

\* C10: when the result of a job whose encoder output was larger than the input
\* is delivered, either the output file is gone and the error is nil, or the
\* error is that of the failed deletion.
C10_OversizedRemoved ==
    \A w \in Workers :
       (wpc[w] = "close" /\ endedBy[wjob[w]] \in {"anomaly", "removeerr"}) =>
          \/ fs[r[w].outputFile].kind = "absent" /\ r[w].err = "nil"
          \/ r[w].err = "remove"

\* C11: in a second run over the directory with replace false, every job
\* whose output file the first run wrote and left ends at the existence gate:
\* its result has alreadyExists set, the encoder is not invoked for it, it
\* writes and deletes nothing, and the files the first run left stay as they were.
C11_SecondRunIdempotent ==
    run = 2 =>
       /\ \A p \in DOMAIN kept : fs[p] = kept[p]
       /\ \A i \in JobIds :
             (Begun(i) /\ Out(i) \in DOMAIN kept) =>
                /\ endedBy[i] = "exists"
                /\ encCalls[i] = 0 /\ wrote[i] = 0 /\ removed[i] = 0
                /\ sent[i] = 1 => (Delivered(i).exists /\ Delivered(i).err = "nil")

\* the second run delivers the result of a job whose output the first run left
C11_Witness ==
    /\ run = 2
    /\ \E i \in JobIds :
          /\ Out(i) \in DOMAIN kept /\ sent[i] = 1 /\ closed[i]
          /\ Delivered(i).exists

\* every job handed to a worker has its result delivered and its channel closed
AllDelivered == \A i \in 1..cnt : sent[i] = 1 /\ closed[i]

\* C12: once the walk has failed no further job is submitted, every job
\* submitted before gets its result delivered, and wait() and then the deferred
\* stop() return.
C12_WalkFailureDrains ==
    /\ [][walkErr => (cnt' = cnt /\ mainPc' # "submit")]_vars
    /\ walkErr ~> (AllDelivered /\ mainPc = "exit")

\* main is in its deferred stop(), which it enters when wait() has returned
InStop == mainPc \in {"stop", "stopwg"}

\* C13: stop() called after wait() has returned finds every worker out of its
\* loop and the wait group at zero, so it does not block; its steps raise no
\* panic and change no worker, no job result and no file.
C13_StopAfterWaitNoop ==
    /\ [](InStop => (/\ WaitGroupDone(wg)
                     /\ \A w \in Workers : Exited(w)
                     /\ InFlight = {}))
    /\ [][(InStop /\ mainPc' # mainPc) =>
             (/\ proc' # "crashed"
              /\ wpc' = wpc /\ wg' = wg
              /\ fs' = fs
              /\ <<sent, closed, rval, res>>' = <<sent, closed, rval, res>>)]_vars

\* the deferred stop() has cancelled and returned after two jobs, one encoded
C13_Witness ==
    /\ mainPc = "exit" /\ cancelled /\ cnt = 2
    /\ \E i \in 1..cnt : endedBy[i] = "ok"

\* C14: once p.ctx is done no worker receives a job from p.jobs.
C14_NoDequeueAfterCancel ==
    [][cancelled => cnt' = cnt]_vars

\* the jobs a worker has accepted whose result is not delivered yet
Pending == {i \in 1..cnt : sent[i] = 0}

\* C15: p.jobs buffers nothing: the jobs accepted from the submitter and not
\* yet delivered are at most `workers`, the pipelines running are at most
\* `workers`, and a submit completes only in a step in which a worker that was
\* waiting in its select takes the job.
C15_NoBuffering ==
    /\ [](Cardinality(Pending) <= workers /\ Cardinality(InFlight) <= workers)
    /\ [][cnt' = cnt + 1 =>
             \E w \in Workers : wpc[w] = "select" /\ wpc'[w] = "begin" /\ wjob'[w] = cnt']_vars

\* the submitter is blocked in its send of the second job while the only
\* worker runs the encoder for the first
C15_Witness ==
    /\ workers = 1 /\ mainPc = "submit" /\ cnt = 1
    /\ wpc[1] = "encode" /\ Pending = {1}

\* the file system actions job i has performed: encoder runs, writes, removals
Effects(i) == <<encCalls[i], wrote[i], removed[i]>>

\* C16: the step that delivers a job's result changes no file, and once the
\* result is delivered the job performs no file system action: its counts of
\* encoder runs, writes and removals stay, and the worker that holds it has
\* only the close of the channel left.
C16_EffectsBeforeDelivery ==
    [][\A i \in JobIds :
          /\ (sent[i] = 0 /\ sent'[i] = 1) => (fs' = fs /\ Effects(i)' = Effects(i))
          /\ sent[i] = 1 =>
                /\ Effects(i)' = Effects(i)
                /\ \A w \in Workers : wjob'[w] = i => wpc'[w] = "close"]_vars

\* a job that wrote its output and removed it again has delivered its result
C16_Witness ==
    \E i \in JobIds :
       /\ sent[i] = 1 /\ closed[i]
       /\ wrote[i] = 1 /\ removed[i] = 1 /\ endedBy[i] = "anomaly"

\* job i passes the existence gate: replace is set or the output file is absent
PassesExists(i) == replace \/ outBefore[i].kind # "file"

\* job i's input has a size, and it is at least the minimum
PassesMinimum(i) ==
    InputStat(input[i]).kind = "file" /\ InputStat(input[i]).size >= minFileSize

\* C17: the gates apply in the order existence, minimum size, dry run, and a
\* job stops at the first that applies: the encoder is invoked (once) exactly
\* for the jobs whose path was normalized, that pass the existence gate, whose
\* input is at least the minimum and that are not dry runs; a job that stops at
\* a gate or at the path error runs no encoder and writes and removes nothing.
C17_GateOrder ==
    \A i \in JobIds :
       Begun(i) =>
          /\ encCalls[i] <= 1
          /\ encCalls[i] = 1 =>
                (endedBy[i] # "patherr" /\ PassesExists(i) /\ PassesMinimum(i) /\ ~dryRun)
          /\ (sent[i] = 1 /\ endedBy[i] # "patherr" /\ PassesExists(i)
                 /\ PassesMinimum(i) /\ ~dryRun) => encCalls[i] = 1
          /\ endedBy[i] # "patherr" =>
                /\ endedBy[i] = "exists" <=> ~PassesExists(i)
                /\ endedBy[i] = "minsize" <=>
                      (/\ PassesExists(i) /\ InputStat(input[i]).kind = "file"
                       /\ ~PassesMinimum(i))
                /\ endedBy[i] = "dryrun" <=>
                      (PassesExists(i) /\ PassesMinimum(i) /\ dryRun)
          /\ endedBy[i] \in {"patherr", "exists", "minsize", "dryrun"} =>
                Effects(i) = <<0, 0, 0>>

\* a dry-run job whose output file is there stops at the existence gate, the
\* first of the two gates that apply to it
C17_Witness ==
    \E i \in JobIds :
       /\ dryRun /\ ~replace /\ PassesMinimum(i)
       /\ endedBy[i] = "exists" /\ sent[i] = 1 /\ Delivered(i).exists

\* directory / (prefix + base name without its extension + suffix + ".webp"),
\* read off an absolute, clean path that has an extension: the directory is
\* what stands before the last slash, the base name what stands between it
\* and the last dot
ExpectedOutput(abs, pre, app) ==
    SubSeq(abs, 1, LastIndex(abs, "/") - 1) \o <<"/">> \o pre
        \o SubSeq(abs, LastIndex(abs, "/") + 1, LastIndex(abs, ".") - 1)
        \o app \o <<".", "w", "e", "b", "p">>

\* C18: for every job whose path was normalized, the output path execute
\* derives, and the outputPath of the result it delivers whichever step ends
\* the job, is directory / (prefix + base name without extension + suffix +
\* ".webp") of the absolute input path; with empty prefix and suffix it is the
\* input path with its extension replaced by ".webp".
C18_OutputPathDerived ==
    \A i \in JobIds :
       (Begun(i) /\ endedBy[i] # "patherr") =>
          /\ Out(i) = ExpectedOutput(input[i], prependToName, appendToName)
          /\ \A w \in Workers : Holds(w, i) => r[w].outputFile = Out(i)
          /\ sent[i] = 1 => Delivered(i).outputFile = Out(i)
          /\ (prependToName = <<>> /\ appendToName = <<>>) =>
                Out(i) = SubSeq(input[i], 1, LastIndex(input[i], ".") - 1)
                            \o <<".", "w", "e", "b", "p">>

\* with -prepend p and -append s the job of /d/b.JPG, stopped at the
\* minimum-size gate, delivers /d/pbs.webp
C18_Witness ==
    \E i \in JobIds :
       /\ input[i] = bJPG /\ sent[i] = 1 /\ endedBy[i] = "minsize"
       /\ Delivered(i).outputFile = <<"/", "d", "/", "p", "b", "s", ".", "w", "e", "b", "p">>

\* C19: in a run of main every send on p.jobs completes, and the run reaches
\* main's return: wait() and the deferred stop() have returned, every worker
\* has left its loop and every submitted job has its result.
C19_RunTerminates ==
    /\ (mainPc = "submit") ~> (mainPc # "submit")
    /\ <>(mainPc = "exit" /\ AllDelivered /\ \A w \in Workers : Exited(w))

====
